---- MODULE Spec2Model ----
(***************************************************************************)
(* Model of csrc/flash_attn/fmha_api.cpp: the four entry points mha_fwd,   *)
(* mha_bwd, mha_fwd_block and mha_bwd_block, their validation, parameter   *)
(* derivation, buffer preparation, dropout counter reservation on the      *)
(* shared CUDA generator, and tile-kernel dispatch.                        *)
(***************************************************************************)
EXTENDS Integers, Sequences, FiniteSets, TLC

(* ------------------------------ bounds --------------------------------- *)
\* raw max key lengths 0..MaxRawK (covers one, two and three 256-tiles)
MaxRawK == 520
\* raw max query lengths 0..MaxRawQ (covers two 16-row tiles)
MaxRawQ == 40
\* head sizes are 4*k, k in 1..MaxHeadQuads (4..136: multiples of 8 and not, above 128)
MaxHeadQuads == 34
\* batch sizes 0..MaxBatch, head counts 1..MaxHeads
MaxBatch == 2
MaxHeads == 2
\* dropout probabilities are n/PDen, n in -1..PDen+1
PDen == 4
\* a call with a nonzero dropout probability starts only while fewer than
\* MaxSegs counter segments have been handed out
MaxSegs == 2
\* the block-sparse plan phase sets elts_per_thread to 8*k, k in 1..MaxEltsSteps
MaxEltsSteps == 2
\* number of splits the plan phase may choose
MaxSplits == 2
\* the generator's seed
GenSeed == 7

(* ------------------------------ devices -------------------------------- *)
\* at::cuda::getCurrentDeviceProperties(): compute capability major.minor
Archs == { [major |-> 7, minor |-> 0], [major |-> 7, minor |-> 5],
           [major |-> 8, minor |-> 0], [major |-> 8, minor |-> 6],
           [major |-> 9, minor |-> 0] }

is_sm75(dprops) == dprops.major = 7 /\ dprops.minor = 5
is_sm80(dprops) == dprops.major = 8 /\ dprops.minor = 0
is_sm8x(dprops) == dprops.major = 8 /\ dprops.minor >= 0
is_sm90(dprops) == dprops.major = 9 /\ dprops.minor = 0

(* ------------------------- parameter derivation ------------------------ *)
\* ((x + m - 1) / m) * m on non-negative ints
RoundUpTo(x, m) == ((x + m - 1) \div m) * m

\* mha_fwd: int blocksize_c = head_size > 64 ? 128 : 256;
FwdBlocksizeC(head_size) == IF head_size > 64 THEN 128 ELSE 256

\* a backward tile size that ignores the device, like the forward one
BwdBlocksizeC_nodev(dprops, head_size) == IF head_size > 64 THEN 128 ELSE 256

\* mha_bwd: int blocksize_c = (head_size > 64 || (is_sm75 && head_size > 32)) ? 128 : 256;
BwdBlocksizeC(dprops, head_size) ==
    IF head_size > 64 \/ (is_sm75(dprops) /\ head_size > 32) THEN 128 ELSE 256

\* a padding whose short-length tests are strict
DenseMaxSeqlenK_strict(max_seqlen_k_, blocksize_c) ==
    LET rounded == RoundUpTo(max_seqlen_k_, blocksize_c)
    IN  IF max_seqlen_k_ < 128 THEN 128
        ELSE IF max_seqlen_k_ < 256 THEN 256
        ELSE rounded

\* dense entry points: round to blocksize_c, then collapse short lengths to 128 / 256
DenseMaxSeqlenK(max_seqlen_k_, blocksize_c) ==
    LET rounded == RoundUpTo(max_seqlen_k_, blocksize_c)
    IN  IF max_seqlen_k_ <= 128 THEN 128
        ELSE IF max_seqlen_k_ <= 256 THEN 256
        ELSE rounded

\* block-sparse entry points: round to 256, at least 256
BlockMaxSeqlenK(max_seqlen_k_) ==
    LET r == RoundUpTo(max_seqlen_k_, 256) IN IF r <= 256 THEN 256 ELSE r

\* a query padding that always adds a tile
MaxSeqlenQ_plus(max_seqlen_q_) == ((max_seqlen_q_ + 16) \div 16) * 16

\* all entry points: int max_seqlen_q = ((max_seqlen_q_ + 16 - 1) / 16) * 16;
MaxSeqlenQ(max_seqlen_q_) == RoundUpTo(max_seqlen_q_, 16)

\* a looping test that also loops over a single tile
Loop_ge(max_seqlen_k, blocksize_c) == max_seqlen_k >= blocksize_c

\* bool loop = max_seqlen_k > blocksize_c;  (block-sparse: max_seqlen_k > 256)
Loop(max_seqlen_k, blocksize_c) == max_seqlen_k > blocksize_c

(* ------------------------------- calls --------------------------------- *)
Entries == {"fwd", "bwd", "fwd_block", "bwd_block"}
IsDense(entry) == entry \in {"fwd", "bwd"}
IsBackward(entry) == entry \in {"bwd", "bwd_block"}

\* q.dtype(); "fp32" stands for any dtype that is neither half nor bfloat16
Dtypes == {"fp16", "bf16", "fp32"}

\* which property of the tensor arguments other than q.dtype() is violated:
\* "dtype" (k/v/out/grad/cu_seqlens/blockmask dtype), "device" (is_cuda),
\* "stride" (stride(-1) == 1, is_contiguous), "shape" (CHECK_SHAPE)
Bads == {"none", "dtype", "device", "stride", "shape"}

HeadSizes == { 4 * k : k \in 1..MaxHeadQuads }
PNums == -1..(PDen + 1)

SM75 == [major |-> 7, minor |-> 5]
SM80 == [major |-> 8, minor |-> 0]

\* a well-formed dense forward call without dropout; the call families vary it
BaseCall ==
    [ entry |-> "fwd", dprops |-> SM80, q_dtype |-> "fp16", bad |-> "none",
      batch_size |-> 1, num_heads |-> 1, head_size |-> 64,
      max_seqlen_q_ |-> 16, max_seqlen_k_ |-> 128,
      p_dropout |-> 0, zero_tensors |-> FALSE, return_softmax |-> FALSE,
      num_splits |-> 1 ]

(* ------------------------------ validation ----------------------------- *)
\* mha_fwd / mha_bwd: TORCH_CHECK(is_sm90 || is_sm8x || is_sm75);
DenseArchOk(dprops) == is_sm90(dprops) \/ is_sm8x(dprops) \/ is_sm75(dprops)

\* mha_fwd_block / mha_bwd_block: TORCH_CHECK(is_sm8x || is_sm90);
BlockArchOk(dprops) == is_sm8x(dprops) \/ is_sm90(dprops)

\* TORCH_CHECK(q_dtype == kFloat16 || ((is_sm8x || is_sm90) && q_dtype == kBFloat16));
DenseDtypeOk(dprops, q_dtype) ==
    q_dtype = "fp16" \/ ((is_sm8x(dprops) \/ is_sm90(dprops)) /\ q_dtype = "bf16")

\* TORCH_CHECK(q.dtype() == torch::kFloat16);
BlockDtypeOk(q_dtype) == q_dtype = "fp16"

\* a head-size check that forgets the multiple-of-8 test
DenseHeadOk_nomod(head_size) == head_size <= 128

\* TORCH_CHECK((head_size % 8 == 0) && (head_size <= 128));
DenseHeadOk(head_size) == (head_size % 8 = 0) /\ (head_size <= 128)

\* TORCH_CHECK(head_size == 16 || head_size == 32 || head_size == 64 || head_size == 128);
BlockHeadOk(head_size) == head_size \in {16, 32, 64, 128}

\* a large-head gate that lets every sm8x device through
BwdLargeHeadOk_sm8x(dprops, head_size) ==
    (head_size > 64) => (is_sm8x(dprops) \/ is_sm90(dprops))

\* mha_bwd: if (head_size > 64) TORCH_CHECK(is_sm80 || is_sm90);
BwdLargeHeadOk(dprops, head_size) ==
    (head_size > 64) => (is_sm80(dprops) \/ is_sm90(dprops))

\* mha_bwd_block: if (head_size == 128) TORCH_CHECK(is_sm80 || is_sm90);
BwdBlockLargeHeadOk(dprops, head_size) ==
    (head_size = 128) => (is_sm80(dprops) \/ is_sm90(dprops))

\* every TORCH_CHECK / CHECK_SHAPE of an entry point that precedes its first
\* allocation, in source order
ChecksPass(c) ==
    /\ IF IsDense(c.entry) THEN DenseArchOk(c.dprops) ELSE BlockArchOk(c.dprops)
    /\ IF IsDense(c.entry) THEN DenseDtypeOk(c.dprops, c.q_dtype)
                           ELSE BlockDtypeOk(c.q_dtype)
    /\ c.bad # "dtype"
    /\ c.bad # "device"
    /\ c.bad # "stride"
    /\ c.batch_size > 0
    /\ IF IsDense(c.entry) THEN DenseHeadOk(c.head_size) ELSE BlockHeadOk(c.head_size)
    /\ (c.entry = "bwd") => BwdLargeHeadOk(c.dprops, c.head_size)
    /\ (c.entry = "bwd_block") => BwdBlockLargeHeadOk(c.dprops, c.head_size)
    /\ c.bad # "shape"

(* ------------------------------- state --------------------------------- *)
\* two host threads calling into the extension with the same generator
Threads == {1, 2}

VARIABLES
    gen,       \* the shared at::CUDAGeneratorImpl: seed_ and philox_offset_per_thread_
    mutex,     \* gen->mutex_: 0 when free, else the thread holding it
    pc,        \* pc[t]: where thread t stands in its entry point
    call,      \* call[t]: the arguments of the call thread t is executing
    lp,        \* lp[t]: the call's locals and its params / launch_params
    tens,      \* tens[t]: contents of the tensors the call touches
    launches,  \* launches[t]: tile-kernel invocations of the call, in order
    claimed,   \* the counter segments [start, start + len) handed out so far
    lastFwd    \* the latest dense forward with dropout: the state its caller saved
               \* before it, and what it handed to its tile kernel

vars == <<gen, mutex, pc, call, lp, tens, launches, claimed, lastFwd>>

\* PhiloxCudaState of a params struct after memset(&params, 0, sizeof(params))
ZeroPhilox == [seed |-> 0, offset |-> 0]

NoCall == [BaseCall EXCEPT !.entry = "none"]

NoLocals ==
    [ blocksize_c |-> 0, max_seqlen_k |-> 0, max_seqlen_q |-> 0, loop |-> FALSE,
      stat_shape |-> <<0, 0, 0>>,
      b |-> 0, h |-> 0, d |-> 0, seqlen_q |-> 0, seqlen_k |-> 0,
      p_dropout |-> 0, is_dropout |-> FALSE,
      o_tmp_ptr |-> "nullptr", num_splits |-> 0,
      elts_per_thread |-> 0, counter_offset |-> 0,
      philox_args |-> ZeroPhilox,
      p_dropout_in_uint |-> <<0, 0>>, p_dropout_in_uint16_t |-> 0,
      rp_dropout |-> [num |-> 0, den |-> 1],
      scale_bmm1_rp_dropout |-> [num |-> 0, den |-> 1],
      tmp_meta |-> [shape |-> <<>>, dtype |-> "none"] ]

\* contents: "undef" (no tensor), "caller" (the caller's data, untouched),
\* "empty" (torch::empty), "zero", "neginf", "kernel" (written by a tile
\* kernel), "dq_tmp" (copy of the accumulator); out and softmax_lse stand for
\* the rows a tile kernel writes, out_skipped and lse_skipped for the rows of
\* the same buffers it never writes (padding, empty sequence segments)
NoTensors ==
    [ out |-> "undef", softmax_lse |-> "undef", s |-> "undef", o_tmp |-> "undef",
      dq |-> "undef", dk |-> "undef", dv |-> "undef",
      softmax_d |-> "undef", dq_tmp |-> "undef",
      out_skipped |-> "undef", lse_skipped |-> "undef" ]

NoFwd == [valid |-> FALSE, saved |-> 0, philox_args |-> ZeroPhilox, b |-> 0, h |-> 0,
          is_dropout |-> FALSE]

Init ==
    /\ gen = [seed |-> GenSeed, philox_offset_per_thread |-> 0]
    /\ mutex = 0
    /\ pc = [t \in Threads |-> "idle"]
    /\ call = [t \in Threads |-> NoCall]
    /\ lp = [t \in Threads |-> NoLocals]
    /\ tens = [t \in Threads |-> NoTensors]
    /\ launches = [t \in Threads |-> <<>>]
    /\ claimed = {}
    /\ lastFwd = NoFwd

(* ---------------------------- entry and checks ------------------------- *)
\* thread t is between calls
Idle(t) == pc[t] = "idle"

\* the caller invokes an entry point with arguments c; the caller's buffers
\* (out for forward; dq, dk, dv for backward) hold the caller's data; the
\* caller of a forward with dropout saves the generator's state first
Enter(t, c) ==
    /\ pc[t] = "idle"
    /\ (c.p_dropout # 0) => Cardinality(claimed) < MaxSegs
    /\ call' = [call EXCEPT ![t] = c]
    /\ tens' = [tens EXCEPT ![t] =
                  IF c.entry = "fwd"
                  THEN [NoTensors EXCEPT !.out = "caller", !.out_skipped = "caller"]
                  ELSE IF c.entry = "fwd_block" THEN NoTensors
                  ELSE [NoTensors EXCEPT !.out = "caller", !.softmax_lse = "caller",
                                         !.out_skipped = "caller",
                                         !.lse_skipped = "caller",
                                         !.dq = "caller", !.dk = "caller", !.dv = "caller"]]
    /\ lastFwd' = IF c.entry = "fwd" /\ c.p_dropout > 0
                   THEN [NoFwd EXCEPT !.saved = gen.philox_offset_per_thread]
                   ELSE lastFwd
    /\ pc' = [pc EXCEPT ![t] = "check"]
    /\ UNCHANGED <<gen, mutex, lp, launches, claimed>>

\* a dropout flag that is also raised for a dropout probability of 0
IsDropout_ge(p_dropout) == p_dropout >= 0

\* bool is_dropout = p_dropout > 0.0;
IsDropout(p_dropout) == p_dropout > 0

\* is_dropout, and the TORCH_CHECKs up to the last CHECK_SHAPE: the first
\* failing one throws
Validate(t) ==
    /\ pc[t] = "check"
    /\ lp' = [lp EXCEPT ![t].is_dropout = IsDropout(call[t].p_dropout)]
    /\ pc' = [pc EXCEPT ![t] = IF ChecksPass(call[t]) THEN "prepare" ELSE "failed"]
    /\ UNCHANGED <<gen, mutex, call, tens, launches, claimed, lastFwd>>

(* ------------------- derivation, allocation, zeroing ------------------- *)
\* blocksize_c of the entry point (the block-sparse ones use the literal 256)
BlocksizeC(c) ==
    IF c.entry = "fwd" THEN FwdBlocksizeC(c.head_size)
    ELSE IF c.entry = "bwd" THEN BwdBlocksizeC(c.dprops, c.head_size)
    ELSE 256

PaddedSeqlenK(c) ==
    IF IsDense(c.entry) THEN DenseMaxSeqlenK(c.max_seqlen_k_, BlocksizeC(c))
    ELSE BlockMaxSeqlenK(c.max_seqlen_k_)

\* tensors created between the checks and the zeroing / set_params
Allocate(c, loop, tn) ==
    IF c.entry = "fwd" THEN
        [tn EXCEPT !.o_tmp = IF loop THEN "empty" ELSE "undef",
                   !.softmax_lse = "empty", !.lse_skipped = "empty",
                   !.s = IF c.return_softmax THEN "empty" ELSE "undef"]
    ELSE IF c.entry = "bwd" THEN
        [tn EXCEPT !.softmax_d = "empty",
                   !.dq_tmp = IF loop THEN "empty" ELSE "undef"]
    ELSE IF c.entry = "fwd_block" THEN
        [tn EXCEPT !.out = "zero", !.out_skipped = "zero",
                   !.o_tmp = IF loop THEN "empty" ELSE "undef",
                   !.softmax_lse = "empty", !.lse_skipped = "empty",
                   !.s = IF c.return_softmax THEN "zero" ELSE "undef"]
    ELSE
        [tn EXCEPT !.softmax_d = "empty",
                   !.dq_tmp = IF loop THEN "empty" ELSE "undef"]

\* shape and element type of o_tmp / dq_tmp:
\* torch::empty({total_q, num_heads, head_size}, opts.dtype(at::kFloat))
TmpMeta(c) == [shape |-> <<"total_q", c.num_heads, c.head_size>>, dtype |-> "fp32"]

\* blocksize_c, max_seqlen_k, max_seqlen_q, loop, then the allocations;
\* stat_shape is the shape of softmax_lse (forward) or softmax_d (backward)
Prepare(t) ==
    /\ pc[t] = "prepare"
    /\ LET c == call[t]
           blocksize_c == BlocksizeC(c)
           max_seqlen_k == PaddedSeqlenK(c)
           max_seqlen_q == MaxSeqlenQ(c.max_seqlen_q_)
           loop == Loop(max_seqlen_k, blocksize_c)
       IN  /\ lp' = [lp EXCEPT ![t] =
                       [@ EXCEPT !.blocksize_c = blocksize_c,
                                 !.max_seqlen_k = max_seqlen_k,
                                 !.max_seqlen_q = max_seqlen_q,
                                 !.loop = loop,
                                 !.tmp_meta = IF loop THEN TmpMeta(c) ELSE @,
                                 !.stat_shape =
                                     <<c.batch_size, c.num_heads, max_seqlen_q>>]]
           /\ tens' = [tens EXCEPT ![t] = Allocate(c, loop, @)]
           /\ pc' = [pc EXCEPT ![t] = IF IsDense(c.entry) THEN "zero" ELSE "set_params"]
    /\ UNCHANGED <<gen, mutex, call, launches, claimed, lastFwd>>

\* a zero-initialization that fills softmax_lse with zeros like the output
ZeroFill_allzero(c, tn) ==
    IF ~c.zero_tensors THEN tn
    ELSE IF c.entry = "fwd" THEN
        [tn EXCEPT !.out = "zero", !.out_skipped = "zero",
                   !.softmax_lse = "zero", !.lse_skipped = "zero",
                   !.s = IF c.return_softmax THEN "zero" ELSE @]
    ELSE
        [tn EXCEPT !.dq = "zero", !.dk = "zero", !.dv = "zero", !.softmax_d = "zero"]

\* if( zero_tensors ) { ... } of mha_fwd and of mha_bwd
ZeroFill(c, tn) ==
    IF ~c.zero_tensors THEN tn
    ELSE IF c.entry = "fwd" THEN
        [tn EXCEPT !.out = "zero", !.out_skipped = "zero",
                   !.softmax_lse = "neginf", !.lse_skipped = "neginf",
                   !.s = IF c.return_softmax THEN "zero" ELSE @]
    ELSE
        [tn EXCEPT !.dq = "zero", !.dk = "zero", !.dv = "zero", !.softmax_d = "zero"]

ZeroTensors(t) ==
    /\ pc[t] = "zero"
    /\ tens' = [tens EXCEPT ![t] = ZeroFill(call[t], @)]
    /\ pc' = [pc EXCEPT ![t] = "set_params"]
    /\ UNCHANGED <<gen, mutex, call, lp, launches, claimed, lastFwd>>

(* ------------------------------ set_params ----------------------------- *)
\* params.p_dropout = 1.f - p_dropout, as a numerator over PDen
KeepProb(p_dropout) == PDen - p_dropout

\* 65535, the largest uint16_t and the scale of the 16-bit threshold
UInt16Max == 65535

\* unsigned 32-bit and wider values are kept as base-2^16 digits, most
\* significant first, so that no intermediate value leaves the checker's integers
Limb == UInt16Max + 1

\* 4294967295 as three digits
UInt32Max == <<0, UInt16Max, UInt16Max>>

\* three digits times a small natural
MulSmall(x, n) ==
    LET lo == x[3] * n
        mid == x[2] * n + (lo \div Limb)
        hi == x[1] * n + (mid \div Limb)
    IN  <<hi, mid % Limb, lo % Limb>>

\* floor of three digits divided by a small positive natural
DivSmall(x, d) ==
    LET m == (x[1] % d) * Limb + x[2]
        l == (m % d) * Limb + x[3]
    IN  <<x[1] \div d, m \div d, l \div d>>

\* whether d divides the three digits x
Divides(d, x) ==
    LET m == (x[1] % d) * Limb + x[2]
        l == (m % d) * Limb + x[3]
    IN  l % d = 0

\* three digits plus one
Inc(x) ==
    LET lo == x[3] + 1
        mid == x[2] + (lo \div Limb)
    IN  <<x[1] + (mid \div Limb), mid % Limb, lo % Limb>>

\* 2^32 - y modulo 2^32 on the low two digits of y
Negate32(y) ==
    LET lo == (Limb - y[3]) % Limb
        borrow == IF y[3] > 0 THEN 1 ELSE 0
    IN  <<(2 * Limb - y[2] - borrow) % Limb, lo>>

\* std::floor(params.p_dropout * 4294967295.0) for a keep-probability
\* keep / PDen >= 0, as three digits
Floor32(keep) == DivSmall(MulSmall(UInt32Max, keep), PDen)

\* -std::floor(params.p_dropout * 4294967295.0) for a keep-probability
\* keep / PDen < 0: the ceiling of the magnitude
CeilMag32(keep) ==
    LET x == MulSmall(UInt32Max, -keep)
    IN  IF Divides(PDen, x) THEN DivSmall(x, PDen) ELSE Inc(DivSmall(x, PDen))

\* uint32_t(...) of that floor, as two digits: the value itself when it fits;
\* otherwise the conversion is undefined and a build wraps or saturates
DropoutInUint(keep) ==
    IF keep >= 0 /\ Floor32(keep)[1] = 0
    THEN { <<Floor32(keep)[2], Floor32(keep)[3]>> }
    ELSE IF keep >= 0
    THEN { <<Floor32(keep)[2], Floor32(keep)[3]>>, <<UInt16Max, UInt16Max>> }
    ELSE { Negate32(CeilMag32(keep)), <<0, 0>> }

\* std::floor(params.p_dropout * 65535.0)
Floor16(keep) == (keep * UInt16Max) \div PDen

\* uint16_t(...) of that floor, with the same undefined conversion
DropoutInUint16(keep) ==
    IF Floor16(keep) >= 0 /\ Floor16(keep) <= UInt16Max
    THEN { Floor16(keep) }
    ELSE { Floor16(keep) % Limb, IF keep < 0 THEN 0 ELSE UInt16Max }

\* params.rp_dropout = 1.f / params.p_dropout, as a fraction (den 0: infinite)
RpDropout(keep) == [num |-> PDen, den |-> keep]

\* a check that lets a dropout probability of exactly 1 through
DropoutCheck_le(p_dropout) == p_dropout <= PDen

\* TORCH_CHECK(p_dropout < 1.f) of set_params_fprop
DropoutCheck(p_dropout) == p_dropout < PDen

\* a counter offset that ignores the head count
DenseCounterOffset_nohead(b, h) == b * 32

\* int64_t counter_offset = params.b * params.h * 32;
DenseCounterOffset(b, h) == b * h * 32

\* mha_bwd_block: int64_t counter_offset = 4;
BwdBlockCounterOffset == 4

\* set_params_fprop / set_params_dgrad, then the lines up to the next call:
\* mha_fwd and mha_bwd_block compute counter_offset right after it
SetParams(t) ==
    /\ pc[t] = "set_params"
    /\ LET c == call[t]
           l == lp[t]
           tmp == IF IsBackward(c.entry) THEN "dq_tmp" ELSE "o_tmp"
           keep == KeepProb(c.p_dropout)
       IN  /\ \E u32 \in DropoutInUint(keep), u16 \in DropoutInUint16(keep) :
                 lp' = [lp EXCEPT ![t] =
                       [@ EXCEPT !.b = c.batch_size, !.h = c.num_heads, !.d = c.head_size,
                                 !.seqlen_q = l.max_seqlen_q,
                                 !.seqlen_k = l.max_seqlen_k,
                                 !.o_tmp_ptr = IF l.loop THEN tmp ELSE "nullptr",
                                 !.p_dropout = keep,
                                 !.p_dropout_in_uint = u32,
                                 !.p_dropout_in_uint16_t = u16,
                                 !.rp_dropout = RpDropout(keep),
                                 \* params.rp_dropout * params.scale_bmm1f, as a
                                 \* multiple of scale_bmm1f = softmax_scale
                                 !.scale_bmm1_rp_dropout = RpDropout(keep),
                                 !.num_splits = IF IsDense(c.entry) THEN c.num_splits ELSE 1,
                                 !.philox_args = ZeroPhilox,
                                 !.counter_offset =
                                     IF c.entry = "fwd"
                                     THEN DenseCounterOffset(c.batch_size, c.num_heads)
                                     ELSE IF c.entry = "bwd_block"
                                     THEN BwdBlockCounterOffset
                                     ELSE @]]
           /\ pc' = [pc EXCEPT ![t] =
                       IF ~DropoutCheck(c.p_dropout) THEN "failed"
                       ELSE IF c.entry \in {"bwd", "fwd_block"} THEN "plan"
                       ELSE "rng"]
    /\ UNCHANGED <<gen, mutex, call, tens, launches, claimed, lastFwd>>

(* ------------------------------ dispatch ------------------------------- *)
\* a forward dispatcher whose bucket tests are strict
FwdBucket_lt(d) ==
    IF d < 32 THEN "fwd_hdim32"
    ELSE IF d < 64 THEN "fwd_hdim64"
    ELSE IF d < 128 THEN "fwd_hdim128"
    ELSE "none"

\* run_fmha_fwd: the head-dimension bucket, "none" when no branch is taken
FwdBucket(d) ==
    IF d <= 32 THEN "fwd_hdim32"
    ELSE IF d <= 64 THEN "fwd_hdim64"
    ELSE IF d <= 128 THEN "fwd_hdim128"
    ELSE "none"

\* run_fmha_bwd
BwdBucket(d) ==
    IF d <= 32 THEN "bwd_hdim32"
    ELSE IF d <= 64 THEN "bwd_hdim64"
    ELSE IF d <= 128 THEN "bwd_hdim128"
    ELSE "none"

KernelOf(c, d) ==
    IF c.entry = "fwd" THEN FwdBucket(d)
    ELSE IF c.entry = "bwd" THEN BwdBucket(d)
    ELSE IF c.entry = "fwd_block" THEN "block_fp16_sm80"
    ELSE "block_dgrad_fp16_sm80"

\* one invocation of a tile kernel: what it is handed and what the buffers hold
Invocation(t, kernel, configure) ==
    [ kernel |-> kernel, configure |-> configure,
      d |-> lp[t].d, b |-> lp[t].b, h |-> lp[t].h,
      is_dropout |-> lp[t].is_dropout, p_dropout |-> lp[t].p_dropout,
      philox_args |-> lp[t].philox_args,
      p_dropout_in_uint |-> lp[t].p_dropout_in_uint,
      p_dropout_in_uint16_t |-> lp[t].p_dropout_in_uint16_t,
      rp_dropout |-> lp[t].rp_dropout,
      scale_bmm1_rp_dropout |-> lp[t].scale_bmm1_rp_dropout,
      o_tmp_ptr |-> lp[t].o_tmp_ptr, num_splits |-> lp[t].num_splits,
      tmp_meta |-> lp[t].tmp_meta,
      before |-> tens[t] ]

Dispatch(t, kernel, configure) ==
    IF kernel = "none" THEN launches
    ELSE [launches EXCEPT ![t] = Append(@, Invocation(t, kernel, configure))]

(* ------------------------------ plan phase ----------------------------- *)
\* num_splits the backward plan leaves in params: the caller's value, or one
\* chosen by the launcher's heuristic when the caller passed 0
PlannedSplits(num_splits) ==
    IF num_splits = 0 THEN 1..MaxSplits ELSE {num_splits}

\* a backward that settles num_splits without invoking the plan
PlanBwd_noplan(t) ==
    /\ pc[t] = "plan"
    /\ call[t].entry = "bwd"
    /\ \E n \in PlannedSplits(lp[t].num_splits) :
           lp' = [lp EXCEPT ![t].num_splits = n]
    /\ pc' = [pc EXCEPT ![t] = "acc"]
    /\ UNCHANGED <<gen, mutex, call, tens, launches, claimed, lastFwd>>

\* launch(params, stream, /*configure=*/true) of mha_bwd
PlanBwd(t) ==
    /\ pc[t] = "plan"
    /\ call[t].entry = "bwd"
    /\ launches' = Dispatch(t, BwdBucket(lp[t].d), "true")
    /\ \E n \in PlannedSplits(lp[t].num_splits) :
           lp' = [lp EXCEPT ![t].num_splits = n]
    /\ pc' = [pc EXCEPT ![t] = "acc"]
    /\ UNCHANGED <<gen, mutex, call, tens, claimed, lastFwd>>

\* values the block-sparse plan may leave in launch_params.elts_per_thread
EltsChoices == { 8 * k : k \in 1..MaxEltsSteps }

\* run_fmha_block_fp16_sm80(launch_params, /*configure=*/true) of mha_fwd_block,
\* then int64_t counter_offset = launch_params.elts_per_thread;
PlanFwdBlock(t) ==
    /\ pc[t] = "plan"
    /\ call[t].entry = "fwd_block"
    /\ launches' = Dispatch(t, "block_fp16_sm80", "true")
    /\ \E e \in EltsChoices :
           lp' = [lp EXCEPT ![t].elts_per_thread = e, ![t].counter_offset = e]
    /\ pc' = [pc EXCEPT ![t] = "rng"]
    /\ UNCHANGED <<gen, mutex, call, tens, claimed, lastFwd>>

\* an accumulator set-up that zeroes only a freshly allocated dq_tmp
AccSetup_nozero(t) ==
    /\ pc[t] = "acc"
    /\ LET l == lp[t]
           split == l.num_splits > 1
           fresh == split /\ tens[t].dq_tmp = "undef"
       IN  /\ tens' = [tens EXCEPT ![t].dq_tmp = IF fresh THEN "zero" ELSE @]
           /\ lp' = [lp EXCEPT ![t] =
                       [@ EXCEPT !.o_tmp_ptr = IF fresh THEN "dq_tmp" ELSE @,
                                 !.tmp_meta = IF fresh THEN TmpMeta(call[t]) ELSE @,
                                 !.counter_offset = DenseCounterOffset(l.b, l.h)]]
    /\ pc' = [pc EXCEPT ![t] = "rng"]
    /\ UNCHANGED <<gen, mutex, call, launches, claimed, lastFwd>>

\* mha_bwd after the plan: if (params.num_splits > 1) { ... }, then
\* int64_t counter_offset = params.b * params.h * 32;
AccSetup(t) ==
    /\ pc[t] = "acc"
    /\ LET l == lp[t]
           split == l.num_splits > 1
           fresh == split /\ tens[t].dq_tmp = "undef"
       IN  /\ tens' = [tens EXCEPT ![t].dq_tmp = IF split THEN "zero" ELSE @]
           /\ lp' = [lp EXCEPT ![t] =
                       [@ EXCEPT !.o_tmp_ptr = IF fresh THEN "dq_tmp" ELSE @,
                                 !.tmp_meta = IF fresh THEN TmpMeta(call[t]) ELSE @,
                                 !.counter_offset = DenseCounterOffset(l.b, l.h)]]
    /\ pc' = [pc EXCEPT ![t] = "rng"]
    /\ UNCHANGED <<gen, mutex, call, launches, claimed, lastFwd>>

(* --------------------- dropout counter reservation --------------------- *)
\* if( is_dropout ) is false: the generator is not touched
SkipRng(t) ==
    /\ pc[t] = "rng"
    /\ ~lp[t].is_dropout
    /\ pc' = [pc EXCEPT ![t] = "launch"]
    /\ UNCHANGED <<gen, mutex, call, lp, tens, launches, claimed, lastFwd>>

\* a reservation that does not wait for the mutex
Lock_nowait(t) ==
    /\ pc[t] = "rng"
    /\ lp[t].is_dropout
    /\ mutex' = t
    /\ pc' = [pc EXCEPT ![t] = "locked"]
    /\ UNCHANGED <<gen, call, lp, tens, launches, claimed, lastFwd>>

\* std::lock_guard<std::mutex> lock(gen->mutex_): blocks until the mutex is free
Lock(t) ==
    /\ pc[t] = "rng"
    /\ lp[t].is_dropout
    /\ mutex = 0
    /\ mutex' = t
    /\ pc' = [pc EXCEPT ![t] = "locked"]
    /\ UNCHANGED <<gen, call, lp, tens, launches, claimed, lastFwd>>

\* CUDAGeneratorImpl::philox_cuda_state rounds the increment up to a multiple of 4
PhiloxIncrement(increment) == ((increment + 3) \div 4) * 4

\* the PhiloxCudaState that philox_cuda_state returns: seed_ and the offset it read
PhiloxState(g) == [seed |-> g.seed, offset |-> g.philox_offset_per_thread]

\* the counter values [start, start + len) a call may consume
Segment(start, len) == [start |-> start, len |-> len]

\* a philox_cuda_state that returns the offset after its own increment
PhiloxRead_post(t) ==
    /\ pc[t] = "locked"
    /\ lp' = [lp EXCEPT ![t].philox_args =
                 [seed |-> gen.seed,
                  offset |-> gen.philox_offset_per_thread
                             + PhiloxIncrement(lp[t].counter_offset)]]
    /\ claimed' = claimed \cup {Segment(gen.philox_offset_per_thread
                                        + PhiloxIncrement(lp[t].counter_offset),
                                        lp[t].counter_offset)}
    /\ pc' = [pc EXCEPT ![t] = "read"]
    /\ UNCHANGED <<gen, mutex, call, tens, launches, lastFwd>>

\* philox_cuda_state, first half: uint64_t offset = philox_offset_per_thread_,
\* which with seed_ becomes params.philox_args; the call now owns
\* [offset, offset + counter_offset)
PhiloxRead(t) ==
    /\ pc[t] = "locked"
    /\ lp' = [lp EXCEPT ![t].philox_args = PhiloxState(gen)]
    /\ claimed' = claimed \cup {Segment(gen.philox_offset_per_thread, lp[t].counter_offset)}
    /\ pc' = [pc EXCEPT ![t] = "read"]
    /\ UNCHANGED <<gen, mutex, call, tens, launches, lastFwd>>

\* philox_cuda_state, second half: philox_offset_per_thread_ += increment
PhiloxAdvance(t) ==
    /\ pc[t] = "read"
    /\ gen' = [gen EXCEPT !.philox_offset_per_thread =
                   @ + PhiloxIncrement(lp[t].counter_offset)]
    /\ pc' = [pc EXCEPT ![t] = "advanced"]
    /\ UNCHANGED <<mutex, call, lp, tens, launches, claimed, lastFwd>>

\* the lock_guard goes out of scope
Unlock(t) ==
    /\ pc[t] = "advanced"
    /\ mutex' = 0
    /\ pc' = [pc EXCEPT ![t] = "launch"]
    /\ UNCHANGED <<gen, call, lp, tens, launches, claimed, lastFwd>>

(* ----------------------------- execute phase --------------------------- *)
\* what the tile kernel of an entry point writes; the skipped rows keep
\* what they held
KernelWrites(c, l, tn) ==
    IF ~IsBackward(c.entry) THEN
        [tn EXCEPT !.out = "kernel", !.softmax_lse = "kernel",
                   !.s = IF c.return_softmax THEN "kernel" ELSE @,
                   !.o_tmp = IF l.o_tmp_ptr # "nullptr" THEN "kernel" ELSE @]
    ELSE
        [tn EXCEPT !.dq = "kernel", !.dk = "kernel", !.dv = "kernel",
                   !.softmax_d = "kernel",
                   !.dq_tmp = IF l.o_tmp_ptr # "nullptr" THEN "kernel" ELSE @]

\* run_fmha_fwd(launch_params), launch(params, stream, /*configure=*/false),
\* run_fmha_block_fp16_sm80(launch_params, false), launch(params, stream)
Launch(t) ==
    /\ pc[t] = "launch"
    /\ LET c == call[t]
           kernel == KernelOf(c, lp[t].d)
           configure == IF c.entry = "fwd" \/ c.entry = "bwd_block" THEN "none" ELSE "false"
       IN  /\ launches' = Dispatch(t, kernel, configure)
           /\ tens' = [tens EXCEPT ![t] =
                         IF kernel = "none" THEN @ ELSE KernelWrites(c, lp[t], @)]
           /\ lastFwd' = IF c.entry = "fwd" /\ lp[t].is_dropout /\ kernel # "none"
                          THEN [lastFwd EXCEPT !.valid = TRUE,
                                               !.philox_args = lp[t].philox_args,
                                               !.b = lp[t].b, !.h = lp[t].h,
                                               !.is_dropout = lp[t].is_dropout]
                          ELSE lastFwd
           /\ pc' = [pc EXCEPT ![t] = IF c.entry = "bwd" THEN "copy" ELSE "done"]
    /\ UNCHANGED <<gen, mutex, call, lp, claimed>>

\* mha_bwd: if (params.num_splits > 1) { dq.copy_(dq_tmp); }
CopyDq(t) ==
    /\ pc[t] = "copy"
    /\ tens' = [tens EXCEPT ![t].dq = IF lp[t].num_splits > 1 THEN "dq_tmp" ELSE @]
    /\ pc' = [pc EXCEPT ![t] = "done"]
    /\ UNCHANGED <<gen, mutex, call, lp, launches, claimed, lastFwd>>

\* the entry point returns its results, or the exception of a failed
\* TORCH_CHECK reaches the caller; the call's locals are gone
Return(t) ==
    /\ pc[t] \in {"done", "failed"}
    /\ pc' = [pc EXCEPT ![t] = "idle"]
    /\ call' = [call EXCEPT ![t] = NoCall]
    /\ lp' = [lp EXCEPT ![t] = NoLocals]
    /\ tens' = [tens EXCEPT ![t] = NoTensors]
    /\ launches' = [launches EXCEPT ![t] = <<>>]
    /\ UNCHANGED <<gen, mutex, claimed, lastFwd>>

\* the caller resets the generator to a state it saved earlier (the Python
\* wrapper saves the state before forward and restores it before backward)
SetRngState(o) ==
    /\ \A t \in Threads : pc[t] = "idle"
    /\ gen.philox_offset_per_thread # o
    /\ gen' = [gen EXCEPT !.philox_offset_per_thread = o]
    /\ UNCHANGED <<mutex, pc, call, lp, tens, launches, claimed, lastFwd>>

\* one step of thread t's call
Step(t) ==
    \/ Validate(t) \/ Prepare(t) \/ ZeroTensors(t) \/ SetParams(t)
    \/ PlanBwd(t) \/ PlanFwdBlock(t) \/ AccSetup(t)
    \/ SkipRng(t) \/ Lock(t) \/ PhiloxRead(t) \/ PhiloxAdvance(t) \/ Unlock(t)
    \/ Launch(t) \/ CopyDq(t) \/ Return(t)

(* ------------------------------- inputs -------------------------------- *)
\* calls of concurrent callers: each entry point with dropout 1/2, and a
\* forward without dropout
ConcCalls ==
    { [BaseCall EXCEPT !.entry = e, !.p_dropout = 2] : e \in Entries }
    \cup {BaseCall}

\* calls of a single caller: every entry point with every dropout probability,
\* and with every batch size and head count under dropout 1/2
SeqCalls ==
    { [BaseCall EXCEPT !.entry = e, !.p_dropout = p] : e \in Entries, p \in PNums }
    \cup
    { [BaseCall EXCEPT !.entry = e, !.p_dropout = 2, !.batch_size = b, !.num_heads = h] :
          e \in Entries, b \in 1..MaxBatch, h \in 1..MaxHeads }

\* calls without dropout that exercise validation and parameter derivation
KeyLenCalls ==
    { [BaseCall EXCEPT !.entry = e, !.dprops = a, !.head_size = hs, !.max_seqlen_k_ = k] :
          e \in Entries, a \in {SM75, SM80}, hs \in {32, 40, 64, 72, 128},
          k \in 0..MaxRawK }

HeadCalls ==
    { [BaseCall EXCEPT !.entry = e, !.dprops = a, !.q_dtype = dt, !.head_size = hs] :
          e \in Entries, a \in Archs, dt \in Dtypes, hs \in HeadSizes }

QueryLenCalls ==
    { [BaseCall EXCEPT !.entry = e, !.max_seqlen_q_ = q, !.batch_size = b, !.num_heads = h] :
          e \in Entries, q \in 0..MaxRawQ, b \in 1..MaxBatch, h \in 1..MaxHeads }

RejectCalls ==
    { [BaseCall EXCEPT !.entry = e, !.bad = bad, !.batch_size = b, !.p_dropout = p,
                       !.zero_tensors = z, !.max_seqlen_k_ = k] :
          e \in Entries, bad \in Bads, b \in 0..MaxBatch,
          p \in {-1, 0, PDen, PDen + 1}, z \in BOOLEAN, k \in {128, 300} }

OptionCalls ==
    { [BaseCall EXCEPT !.entry = e, !.return_softmax = rs, !.num_splits = n,
                       !.zero_tensors = z, !.max_seqlen_k_ = k, !.head_size = hs] :
          e \in Entries, rs \in BOOLEAN, n \in 0..MaxSplits, z \in BOOLEAN,
          k \in {128, 300}, hs \in {64, 128} }

\* calls whose cu_seqlens_q holds no or one offset (batch_size -1 or 0)
BatchCalls ==
    { [BaseCall EXCEPT !.entry = e, !.batch_size = b, !.head_size = hs] :
          e \in Entries, b \in {-1, 0}, hs \in HeadSizes }

DeriveCalls ==
    KeyLenCalls \cup HeadCalls \cup QueryLenCalls \cup RejectCalls \cup OptionCalls
    \cup BatchCalls

\* calls with and without dropout over the split counts and over one and two tiles
PlanCalls ==
    { [BaseCall EXCEPT !.entry = e, !.p_dropout = p, !.num_splits = n,
                       !.max_seqlen_k_ = k] :
          e \in Entries, p \in {0, 2}, n \in 0..MaxSplits, k \in {128, 300} }

(* --------------------------- specifications ---------------------------- *)
\* two threads issue calls that share the generator
Next == \E t \in Threads : (Idle(t) /\ \E c \in ConcCalls : Enter(t, c)) \/ Step(t)

Spec == Init /\ [][Next]_vars

\* one caller issues calls one after the other, and may restore the generator
\* state it saved before the latest forward
NextSeq ==
    \/ Idle(1) /\ \E c \in SeqCalls : Enter(1, c)
    \/ Step(1)
    \/ SetRngState(lastFwd.saved)

SpecSeq == Init /\ [][NextSeq]_vars

\* one caller issues calls without dropout over wide ranges of the arguments
NextDerive ==
    \/ Idle(1) /\ \E c \in DeriveCalls : Enter(1, c)
    \/ Validate(1) \/ Prepare(1) \/ ZeroTensors(1) \/ SetParams(1)
    \/ PlanBwd(1) \/ PlanFwdBlock(1) \/ AccSetup(1)
    \/ SkipRng(1) \/ Launch(1) \/ CopyDq(1) \/ Return(1)

SpecDerive == Init /\ [][NextDerive]_vars

\* one caller issues calls that plan, set up an accumulator and reserve
\* dropout counters
NextPlan ==
    \/ Idle(1) /\ \E c \in PlanCalls : Enter(1, c)
    \/ Step(1)

SpecPlan == Init /\ [][NextPlan]_vars

(* ------------------------------ claims --------------------------------- *)
\* the execute-phase invocation of thread t's call (its latest invocation)
Executed(t) == launches[t][Len(launches[t])]

\* thread t's call has run its execute-phase kernel
HasExecuted(t) ==
    /\ pc[t] \in {"copy", "done"}
    /\ launches[t] # <<>>
    /\ Executed(t).configure # "true"

\* thread t's backward follows a dropout forward with the same batch size and head count
BwdAfterFwd(t) ==
    /\ call[t].entry = "bwd"
    /\ lp[t].is_dropout
    /\ lastFwd.valid
    /\ lastFwd.b = lp[t].b
    /\ lastFwd.h = lp[t].h

\* C1 as stated: whenever a dropout backward runs after a dropout forward on the
\* same generator with the same batch size and head count, the (seed, offset)
\* handed to backward's kernel equals the one handed to forward's kernel.
C1_Original ==
    \A t \in Threads :
        (HasExecuted(t) /\ BwdAfterFwd(t))
            => Executed(t).philox_args = lastFwd.philox_args

\* C1 amended: a dropout backward that reserves its offset while the generator
\* holds the (seed, offset) that forward's reservation returned (the caller
\* restored the saved generator state) draws that same (seed, offset), and every
\* kernel is handed exactly the state its call reserved.
C1_Amended ==
    /\ [][\A t \in Threads :
            ( /\ pc[t] = "locked" /\ pc'[t] = "read"
              /\ BwdAfterFwd(t)
              /\ gen.seed = lastFwd.philox_args.seed
              /\ gen.philox_offset_per_thread = lastFwd.philox_args.offset )
                => lp'[t].philox_args = lastFwd.philox_args]_vars
    /\ [](\A t \in Threads :
            HasExecuted(t) => Executed(t).philox_args = lp[t].philox_args)

\* a backward has run with the state forward used, after the caller's restore
C1_Witness ==
    \E t \in Threads :
        /\ HasExecuted(t) /\ BwdAfterFwd(t)
        /\ Executed(t).philox_args = lastFwd.philox_args
        /\ Executed(t).philox_args.seed = GenSeed

\* thread t's call has reserved its counter segment from the generator
Reserved(t) ==
    lp[t].is_dropout /\ pc[t] \in {"read", "advanced", "launch", "copy", "done"}

\* the segment thread t's call reserved
SegmentOf(t) == Segment(lp[t].philox_args.offset, lp[t].counter_offset)

\* C2 as stated: in every dropout-enabled call of each of the four entry points
\* the counter offset reserved from the generator is batch_size * num_heads * 32.
C2_Original ==
    \A t \in Threads :
        Reserved(t) =>
            lp[t].counter_offset = call[t].batch_size * call[t].num_heads * 32

\* C2 amended: the reserved counter offset is batch_size * num_heads * 32 in the
\* dense forward and backward only; backward_block_sparse reserves the constant 4
\* and forward_block_sparse reserves the elts_per_thread left by its plan phase.
C2_Amended ==
    \A t \in Threads :
        Reserved(t) =>
            /\ IsDense(call[t].entry) =>
                   lp[t].counter_offset = call[t].batch_size * call[t].num_heads * 32
            /\ (call[t].entry = "bwd_block") => lp[t].counter_offset = 4
            /\ (call[t].entry = "fwd_block") =>
                   lp[t].counter_offset = lp[t].elts_per_thread
            /\ SegmentOf(t) \in claimed

\* a dense call with two batches and two heads has reserved 128 counter values
C2_Witness ==
    \E t \in Threads :
        /\ Reserved(t) /\ IsDense(call[t].entry)
        /\ call[t].batch_size = 2 /\ call[t].num_heads = 2
        /\ lp[t].counter_offset = 128

\* two counter segments share no counter value
Disjoint(s1, s2) ==
    \/ s1.len = 0 \/ s2.len = 0
    \/ s1.start + s1.len <= s2.start
    \/ s2.start + s2.len <= s1.start

\* C3: a call reads and advances the generator's counter only while it holds the
\* generator's mutex, and the segment a call is handed shares no counter value
\* with any segment handed out before it or held by a concurrent call.
C3_Disjoint ==
    /\ [](\A t \in Threads : pc[t] \in {"locked", "read", "advanced"} => mutex = t)
    /\ [](\A t, u \in Threads :
            (t # u /\ Reserved(t) /\ Reserved(u)) => Disjoint(SegmentOf(t), SegmentOf(u)))
    /\ [][\A t \in Threads :
            (pc[t] = "locked" /\ pc'[t] = "read") =>
                /\ lp'[t].philox_args.offset = gen.philox_offset_per_thread
                /\ \A s \in claimed : Disjoint(s, SegmentOf(t)')]_vars

\* both threads hold a reserved segment at once, thread 2 having gone first
C3_Witness ==
    /\ Reserved(1) /\ Reserved(2)
    /\ lp[1].counter_offset > 0 /\ lp[2].counter_offset > 0
    /\ lp[2].philox_args.offset < lp[1].philox_args.offset

\* the caller-supplied buffers of thread t's call hold what the caller put there
CallerBuffersUntouched(t) ==
    \A f \in {"out", "dq", "dk", "dv"} : tens[t][f] \in {"caller", "undef"}

\* C4 as stated: when a precondition check of forward or backward fails, no
\* tile kernel has been dispatched and no caller-supplied buffer (output, dQ,
\* dK, dV) has been modified, even when zero-initialization was requested.
C4_Claim ==
    \A t \in Threads :
        (pc[t] = "failed" /\ IsDense(call[t].entry)) =>
            /\ launches[t] = <<>>
            /\ CallerBuffersUntouched(t)

\* every invocation of a tile kernel made so far by thread t's call
Invocations(t) == { launches[t][i] : i \in DOMAIN launches[t] }

\* C5 as stated: a call whose keep-probability 1 - dropout_p is >= 1 is
\* rejected, so every call that reaches a tile kernel has keep-probability < 1.
C5_Original ==
    \A t \in Threads :
        /\ (KeepProb(call[t].p_dropout) >= PDen /\ call[t].entry # "none")
               => pc[t] \in {"check", "prepare", "zero", "set_params", "failed"}
        /\ \A inv \in Invocations(t) : inv.p_dropout < PDen

\* C5 amended: a call is rejected whenever its dropout probability is >= 1,
\* that is whenever its keep-probability is <= 0; every call that reaches a
\* tile kernel has keep-probability strictly greater than 0 (it may be 1 or more).
C5_Amended ==
    \A t \in Threads :
        /\ (PDen - call[t].p_dropout <= 0 /\ call[t].entry # "none")
               => /\ pc[t] \in {"check", "prepare", "zero", "set_params", "failed"}
                  /\ launches[t] = <<>>
        /\ \A inv \in Invocations(t) :
               /\ inv.p_dropout > 0
               /\ inv.p_dropout = PDen - call[t].p_dropout

\* a call that passes every other check is rejected for a dropout probability of 1
C5_Witness ==
    \E t \in Threads :
        /\ pc[t] = "failed" /\ ChecksPass(call[t])
        /\ call[t].p_dropout = PDen
        /\ lp[t].p_dropout = 0

\* thread t's call has derived its tiling parameters
Prepared(t) == lp[t].blocksize_c # 0

\* C6 as stated: in forward and backward, on every hardware generation,
\* blocksize_c is 128 if head_dim > 64 and 256 otherwise.
C6_Original ==
    \A t \in Threads :
        (Prepared(t) /\ IsDense(call[t].entry)) =>
            lp[t].blocksize_c = IF call[t].head_size > 64 THEN 128 ELSE 256

\* C6 amended: forward uses 128 if head_dim > 64 and 256 otherwise on every
\* generation; backward uses 128 if head_dim > 64, or if the device is sm75 and
\* head_dim > 32, and 256 otherwise; so forward and backward use the same tile
\* size except on sm75 with 32 < head_dim <= 64.
C6_Amended ==
    \A t \in Threads :
        (Prepared(t) /\ IsDense(call[t].entry)) =>
            lp[t].blocksize_c =
                IF call[t].head_size > 64 THEN 128
                ELSE IF /\ call[t].entry = "bwd"
                        /\ call[t].dprops = [major |-> 7, minor |-> 5]
                        /\ call[t].head_size > 32
                     THEN 128
                ELSE 256

\* a backward on sm75 with head_dim 64 uses 128-wide tiles
C6_Witness ==
    \E t \in Threads :
        /\ Prepared(t) /\ call[t].entry = "bwd"
        /\ call[t].dprops = [major |-> 7, minor |-> 5]
        /\ call[t].head_size = 64
        /\ lp[t].blocksize_c = 128

C8_LoopAccumulator ==
    \A t \in Threads :
        (call[t].entry = "fwd" /\ Prepared(t)) =>
            /\ lp[t].loop <=> (lp[t].max_seqlen_k > lp[t].blocksize_c)
            /\ lp[t].loop <=>
                   (call[t].max_seqlen_k_ > (IF call[t].head_size > 64 THEN 128 ELSE 256))
            /\ \A inv \in Invocations(t) :
                   /\ (inv.o_tmp_ptr = "o_tmp") <=> lp[t].loop
                   /\ (inv.o_tmp_ptr = "nullptr") <=> ~lp[t].loop
                   /\ (inv.before.o_tmp = "empty") <=> lp[t].loop
                   /\ (inv.before.o_tmp = "undef") <=> ~lp[t].loop

\* a forward over more than one tile has handed o_tmp to its kernel
C8_Witness ==
    \E t \in Threads :
        /\ call[t].entry = "fwd" /\ pc[t] = "done"
        /\ lp[t].loop
        /\ \E inv \in Invocations(t) : inv.o_tmp_ptr = "o_tmp"

\* C9: every entry point pads the raw max query length to the smallest multiple
\* of 16 that is >= it, and the LogSumExp of forward and the dSoftmaxSum of
\* backward have shape [batch_size, num_heads, padded max query length].
C9_QueryPadding ==
    \A t \in Threads :
        Prepared(t) =>
            LET raw == call[t].max_seqlen_q_
                padded == lp[t].max_seqlen_q
            IN  /\ padded >= raw
                /\ padded % 16 = 0
                /\ padded - raw < 16
                /\ lp[t].stat_shape = <<call[t].batch_size, call[t].num_heads, padded>>
                /\ tens[t][IF IsBackward(call[t].entry) THEN "softmax_d"
                                                        ELSE "softmax_lse"] # "undef"

\* a call with raw max query length 17 has returned statistics padded to 32
C9_Witness ==
    \E t \in Threads :
        /\ pc[t] = "done"
        /\ call[t].max_seqlen_q_ = 17
        /\ lp[t].stat_shape = <<call[t].batch_size, call[t].num_heads, 32>>

\* thread t's call has passed the checks that precede its first allocation
PastChecks(t) == pc[t] \notin {"idle", "check", "failed"} \/ launches[t] # <<>>

\* C10: a call that gets past validation, and so every call that dispatches a
\* kernel, runs on a supported combination: dense entry points on sm75, sm8x
\* or sm90; bfloat16 only on sm8x or sm90; backward with head_dim > 64 only on
\* sm80 or sm90; block-sparse entry points only on sm8x or sm90 with float16.
C10_Gating ==
    \A t \in Threads :
        PastChecks(t) =>
            LET c == call[t]
                major == c.dprops.major
                minor == c.dprops.minor
                sm75 == major = 7 /\ minor = 5
                sm80 == major = 8 /\ minor = 0
                sm8x == major = 8
                sm90 == major = 9 /\ minor = 0
            IN  /\ IsDense(c.entry) => (sm75 \/ sm8x \/ sm90)
                /\ IsDense(c.entry) => c.q_dtype \in {"fp16", "bf16"}
                /\ (c.q_dtype = "bf16") => (sm8x \/ sm90)
                /\ (IsBackward(c.entry) /\ c.head_size > 64) => (sm80 \/ sm90)
                /\ ~IsDense(c.entry) => ((sm8x \/ sm90) /\ c.q_dtype = "fp16")

\* a dense backward with head_dim 128 on sm86 has been rejected before any dispatch
C10_Witness ==
    \E t \in Threads :
        /\ pc[t] = "failed" /\ launches[t] = <<>>
        /\ call[t].entry = "bwd" /\ call[t].head_size = 128
        /\ call[t].dprops = [major |-> 8, minor |-> 6]
        /\ call[t].q_dtype = "fp16" /\ call[t].bad = "none"

\* C11: dense forward and backward reject, before any plan or execute kernel
\* invocation, every call whose batch size is <= 0 or whose head dimension is
\* not a multiple of 8 or exceeds 128; the block-sparse entry points reject
\* every call whose batch size is <= 0 or whose head dimension is not one of
\* 16, 32, 64, 128.
C11_Rejects ==
    \A t \in Threads :
        LET c == call[t]
            unsupported ==
                \/ c.batch_size <= 0
                \/ IsDense(c.entry) /\ (c.head_size % 8 # 0 \/ c.head_size > 128)
                \/ ~IsDense(c.entry) /\ c.head_size \notin {16, 32, 64, 128}
        IN  (c.entry # "none" /\ unsupported) =>
                /\ pc[t] \in {"check", "failed"}
                /\ launches[t] = <<>>
                /\ tens[t].softmax_lse \in {"undef", "caller"}

\* a dense call with head dimension 12 and an otherwise valid call with an
\* empty batch have been rejected
C11_Witness ==
    \E t \in Threads :
        /\ pc[t] = "failed" /\ launches[t] = <<>>
        /\ IsDense(call[t].entry) /\ call[t].bad = "none"
        /\ call[t].q_dtype = "fp16" /\ call[t].dprops = SM80
        /\ \/ call[t].head_size = 12 /\ call[t].batch_size = 1
           \/ call[t].head_size = 64 /\ call[t].batch_size = 0

\* C12: when zero-initialization is requested in forward, at the moment the
\* tile kernel is dispatched every element of the output buffer is zero and
\* every element of the LogSumExp buffer is negative infinity, so a row the
\* kernel never writes ends the call with output zero and LogSumExp negative
\* infinity.
C12_ZeroInit ==
    \A t \in Threads :
        (call[t].entry = "fwd" /\ call[t].zero_tensors) =>
            /\ \A inv \in Invocations(t) :
                   /\ inv.before.out = "zero"
                   /\ inv.before.out_skipped = "zero"
                   /\ inv.before.softmax_lse = "neginf"
                   /\ inv.before.lse_skipped = "neginf"
            /\ (pc[t] = "done") =>
                   /\ launches[t] # <<>>
                   /\ tens[t].out_skipped = "zero"
                   /\ tens[t].lse_skipped = "neginf"

\* a zero-initialized forward over more than one tile has returned from its kernel
C12_Witness ==
    \E t \in Threads :
        /\ call[t].entry = "fwd" /\ call[t].zero_tensors /\ pc[t] = "done"
        /\ call[t].max_seqlen_k_ = 300
        /\ tens[t].out = "kernel" /\ tens[t].out_skipped = "zero"
        /\ tens[t].softmax_lse = "kernel" /\ tens[t].lse_skipped = "neginf"

\* C13: with dropout_p = 0 the keep-probability is 1, the rescale factor is
\* exactly 1 so the combined scale equals the softmax scale, both fixed-point
\* thresholds are the maximum of their width, dropout is flagged off for the
\* kernel, and the call neither locks nor advances the generator.
C13_NoDropout ==
    /\ [](\A t \in Threads :
            (call[t].entry # "none" /\ call[t].p_dropout = 0) =>
                /\ ~lp[t].is_dropout
                /\ pc[t] \notin {"locked", "read", "advanced"}
                /\ mutex # t
                /\ \A inv \in Invocations(t) :
                       /\ inv.p_dropout = PDen
                       /\ inv.rp_dropout.den # 0
                       /\ inv.rp_dropout.num = inv.rp_dropout.den
                       /\ inv.scale_bmm1_rp_dropout.den # 0
                       /\ inv.scale_bmm1_rp_dropout.num = inv.scale_bmm1_rp_dropout.den
                       /\ inv.p_dropout_in_uint = <<65535, 65535>>
                       /\ inv.p_dropout_in_uint16_t = 65535
                       /\ ~inv.is_dropout
                       /\ inv.philox_args = ZeroPhilox)
    /\ [][\A t \in Threads :
            (call[t].entry # "none" /\ call[t].p_dropout = 0 /\ pc'[t] # pc[t]) =>
                /\ gen' = gen
                /\ mutex' = mutex
                /\ claimed' = claimed]_vars

\* a backward without dropout has run its kernel on a generator that earlier
\* calls had advanced
C13_Witness ==
    \E t \in Threads :
        /\ call[t].entry = "bwd" /\ call[t].p_dropout = 0 /\ pc[t] = "done"
        /\ gen.philox_offset_per_thread > 0
        /\ Executed(t).p_dropout_in_uint = <<65535, 65535>>
        /\ Executed(t).p_dropout = PDen

\* thread t's backward has settled its accumulator: with more than one split
\* dq_tmp exists, is zero and is what the kernel will be handed
AccumulatorSettled(t) ==
    (lp[t].num_splits > 1) =>
        (tens[t].dq_tmp = "zero" /\ lp[t].o_tmp_ptr = "dq_tmp")

\* C14: every backward call that passes validation invokes the plan
\* (configure=true) once, then settles the query-gradient accumulator, then
\* reserves the dropout counter offset if dropout is enabled, then invokes the
\* execute (configure=false) once; the generator is not consumed before the plan
\* has finished, and plan and execute go to the same head-dimension bucket.
C14_Order ==
    /\ [](\A t \in Threads :
            (call[t].entry = "bwd") =>
                LET bucket == IF call[t].head_size <= 32 THEN "bwd_hdim32"
                              ELSE IF call[t].head_size <= 64 THEN "bwd_hdim64"
                              ELSE "bwd_hdim128"
                    planned == /\ Len(launches[t]) >= 1
                               /\ launches[t][1].configure = "true"
                               /\ launches[t][1].kernel = bucket
                               /\ launches[t][1].philox_args = ZeroPhilox
                IN  /\ pc[t] \in {"check", "prepare", "zero", "set_params", "plan", "failed"}
                        => (launches[t] = <<>> /\ lp[t].philox_args = ZeroPhilox)
                    /\ pc[t] \in {"acc", "rng", "locked"}
                        => (planned /\ Len(launches[t]) = 1
                            /\ lp[t].philox_args = ZeroPhilox)
                    /\ pc[t] \in {"rng", "locked", "read", "advanced", "launch"}
                        => (planned /\ Len(launches[t]) = 1 /\ AccumulatorSettled(t))
                    /\ (pc[t] = "launch" /\ lp[t].is_dropout)
                        => (lp[t].philox_args.seed = GenSeed /\ SegmentOf(t) \in claimed)
                    /\ pc[t] \in {"copy", "done"}
                        => /\ planned /\ Len(launches[t]) = 2
                           /\ launches[t][2].configure = "false"
                           /\ launches[t][2].kernel = bucket
                           /\ launches[t][2].philox_args = lp[t].philox_args
                           /\ launches[t][2].is_dropout
                                  => launches[t][2].philox_args.seed = GenSeed
                           /\ ~launches[t][2].is_dropout
                                  => launches[t][2].philox_args = ZeroPhilox)
    /\ [][\A t \in Threads :
            (call[t].entry = "bwd" /\ (gen' # gen \/ claimed' # claimed)) =>
                /\ Len(launches[t]) = 1
                /\ launches[t][1].configure = "true"
                /\ AccumulatorSettled(t)
                /\ launches'[t] = launches[t]]_vars

\* a backward with dropout whose plan chose two splits has run plan, fresh
\* accumulator, reservation and execute
C14_Witness ==
    \E t \in Threads :
        /\ call[t].entry = "bwd" /\ pc[t] = "done" /\ lp[t].is_dropout
        /\ call[t].num_splits = 0 /\ lp[t].num_splits = 2 /\ ~lp[t].loop
        /\ Len(launches[t]) = 2
        /\ launches[t][2].before.dq_tmp = "zero"
        /\ launches[t][2].philox_args.seed = GenSeed

\* C15: in backward, when the split count after the plan is > 1, the execute
\* invocation is handed a non-null accumulator pointer to a float32 buffer of
\* shape [total_q, num_heads, head_dim] that is all zero, whether or not looping
\* mode had already allocated it, and after the execute dQ is overwritten with
\* the accumulator; when the split count is <= 1 no copy into dQ is made.
C15_SplitAccumulator ==
    \A t \in Threads :
        (call[t].entry = "bwd" /\ HasExecuted(t)) =>
            LET ex == Executed(t)
            IN  /\ ex.num_splits = lp[t].num_splits
                /\ (lp[t].num_splits > 1) =>
                       /\ ex.o_tmp_ptr = "dq_tmp"
                       /\ ex.before.dq_tmp = "zero"
                       /\ ex.tmp_meta.dtype = "fp32"
                       /\ ex.tmp_meta.shape =
                              <<"total_q", call[t].num_heads, call[t].head_size>>
                       /\ (pc[t] = "copy") => tens[t].dq = "kernel"
                       /\ (pc[t] = "done") => tens[t].dq = "dq_tmp"
                /\ (lp[t].num_splits <= 1) => tens[t].dq = "kernel"

\* a looping backward with two splits has copied its re-zeroed accumulator into dQ
C15_Witness ==
    \E t \in Threads :
        /\ call[t].entry = "bwd" /\ pc[t] = "done"
        /\ lp[t].loop /\ lp[t].num_splits = 2
        /\ Executed(t).before.dq_tmp = "zero"
        /\ tens[t].dq = "dq_tmp"

\* the head-dimension bound of a dense bucket kernel, 0 for no kernel
BucketBound(kernel) ==
    IF kernel \in {"fwd_hdim32", "bwd_hdim32"} THEN 32
    ELSE IF kernel \in {"fwd_hdim64", "bwd_hdim64"} THEN 64
    ELSE IF kernel \in {"fwd_hdim128", "bwd_hdim128"} THEN 128
    ELSE 0

\* C16: every dense forward or backward call either fails validation or
\* dispatches to exactly one head-dimension bucket kernel (head_dim <= 32, else
\* <= 64, else <= 128); no head dimension passes validation and runs no kernel,
\* and forward and backward select the same bucket for the same head dimension.
C16_Buckets ==
    \A t \in Threads :
        IsDense(call[t].entry) =>
            LET d == call[t].head_size
                bound == IF d <= 32 THEN 32 ELSE IF d <= 64 THEN 64 ELSE 128
                side == IF call[t].entry = "fwd" THEN {"fwd_hdim32", "fwd_hdim64", "fwd_hdim128"}
                        ELSE {"bwd_hdim32", "bwd_hdim64", "bwd_hdim128"}
            IN  /\ \A inv \in Invocations(t) :
                       /\ inv.kernel \in side
                       /\ BucketBound(inv.kernel) = bound
                       /\ inv.d = d /\ d <= 128
                /\ (pc[t] = "done") =>
                       Len(launches[t]) = IF call[t].entry = "fwd" THEN 1 ELSE 2
                /\ (pc[t] # "failed" /\ pc[t] # "check") =>
                       /\ BucketBound(FwdBucket(d)) = bound
                       /\ BucketBound(BwdBucket(d)) = bound

\* a forward and a backward with head dimension 128 have run the 128 bucket,
\* one with head dimension 40 the 64 bucket
C16_Witness ==
    \E t \in Threads :
        /\ IsDense(call[t].entry) /\ pc[t] = "done"
        /\ \/ call[t].head_size = 128 /\ BucketBound(Executed(t).kernel) = 128
           \/ call[t].head_size = 40 /\ BucketBound(Executed(t).kernel) = 64

\* thread t's call has been accepted by set_params_fprop
Accepted(t) ==
    pc[t] \in {"plan", "acc", "rng", "locked", "read", "advanced", "launch", "copy", "done"}

\* floor(keep / PDen * 2^32) as three digits
FloorTwo32(keep) == DivSmall(MulSmall(<<1, 0, 0>>, keep), PDen)

\* floor(keep / PDen * 2^16)
FloorTwo16(keep) == (keep * Limb) \div PDen

\* C17 as stated: for every accepted keep-probability p the 32-bit threshold
\* stored in the parameters equals floor(p * 2^32) and the 16-bit threshold
\* equals floor(p * 2^16), each representable in its width without overflow
\* or wrap-around.
C17_Claim ==
    \A t \in Threads :
        Accepted(t) =>
            LET keep == lp[t].p_dropout
            IN  /\ FloorTwo32(keep)[1] = 0
                /\ lp[t].p_dropout_in_uint = <<FloorTwo32(keep)[2], FloorTwo32(keep)[3]>>
                /\ Floor32(keep)[1] = 0
                /\ FloorTwo16(keep) <= UInt16Max
                /\ lp[t].p_dropout_in_uint16_t = FloorTwo16(keep)
                /\ Floor16(keep) <= UInt16Max

====
